---------------------------- MODULE Spec2Model ----------------------------
(***************************************************************************)
(* Indexed binary min-heap (heap.c), the engines built on it (dijkstra,    *)
(* dijkstra_markov) and the engines on adjacency matrices (bellman_ford,   *)
(* floyd_warshall).                                                        *)
(*                                                                         *)
(* A heap is the record [array, inds, nb_elements, max_elements] of the C  *)
(* struct heap.  C arrays are functions on 0..max_elements-1.  Keys and    *)
(* weights are doubles in the source; the model uses small integers, on    *)
(* which the comparisons and additions of the source are exact, and        *)
(* Infinity for INFINITY.                                                  *)
(***************************************************************************)
EXTENDS Integers, Sequences, FiniteSets, TLC

(***************************************************************************)
(* Bounds of the model.                                                    *)
(***************************************************************************)
MaxCap == 4
MaxKey == 1
MaxPrev == 0
MaxVertices == 3
MaxEdges == 4
MaxWeight == 1
\* graphs in matrix form: vertices, edges, and weights from -MaxNegative up
MaxMatrixVertices == 4
MaxMatrixEdges == 3
MaxNegative == 1

\* INFINITY of math.h: larger than the weight of any path of the model
Infinity == 1000

VARIABLES
  h,        \* the heap_s object
  status,   \* "ok", "abort" (an assert failed), "ub" (out-of-bounds access)
  ret,      \* the value returned by the last heap_peek
  last,     \* history: the last call, its argument, whether the vertex was in the heap
  phase,    \* history: "adds" (only heap_add so far), "drain" (extractions began)
  drained,  \* history: keys extracted since the drain began
  added,    \* history: vertex indices passed to heap_add so far
  fresh,    \* history: every call so far was a heap_add of a vertex not added before
  g,        \* dijkstra: the graph_s it is given
  src,      \* dijkstra: the source vertex
  dist,     \* dijkstra: the result array
  visited_vertices,  \* dijkstra: the array of finalized vertices
  q,        \* dijkstra: its heap
  pc,       \* dijkstra: "start", "loop", "done" (returned), "abort" (an assert failed)
  gbf,      \* bellman_ford: the graph_s it is given, dist, parent and flag included
  bf,       \* bellman_ford: its position pc, its loop counter k, the passes made
  gfw,      \* floyd_warshall: the graph_s it is given, dist and parent included
  fw,       \* floyd_warshall: its position pc, its loop counter k, its result ret
  previous  \* history: the source and the tables of the engine's previous call
            \* on this graph, <<>> while it has been called at most once

heapVars == <<h, status, ret, last, phase, drained, added, fresh>>

dijkstraVars == <<g, src, dist, visited_vertices, q, pc>>

matrixVars == <<gbf, bf, gfw, fw>>

vars == <<h, status, ret, last, phase, drained, added, fresh,
          g, src, dist, visited_vertices, q, pc, gbf, bf, gfw, fw, previous>>

(***************************************************************************)
(* vertex_s and the content of a slot malloc returned and nobody wrote.    *)
(* The code never reads such a slot: array[i] is read for i < nb_elements  *)
(* or for i = inds[v] # -1, and both were written before.                  *)
(***************************************************************************)
vertex_s(ind, weight, prev) == [ind |-> ind, weight |-> weight, prev |-> prev]

Unset == vertex_s(-1, -1, -1)

Vertices(cap) == [ind : 0..(cap - 1), weight : 0..MaxKey, prev : -1..MaxPrev]

(***************************************************************************)
(* heap.c                                                                  *)
(***************************************************************************)
\* swap that leaves the index of the second vertex as it was
swap_one_index(hp, v, w) ==
  LET tmp_v == hp.array[v]
      a1 == [hp.array EXCEPT ![v] = hp.array[w]]
      i1 == [hp.inds EXCEPT ![a1[v].ind] = v]
      a2 == [a1 EXCEPT ![w] = tmp_v]
  IN [hp EXCEPT !.array = a2, !.inds = i1]

swap(hp, v, w) ==
  LET tmp_v == hp.array[v]
      a1 == [hp.array EXCEPT ![v] = hp.array[w]]
      i1 == [hp.inds EXCEPT ![a1[v].ind] = v]
      a2 == [a1 EXCEPT ![w] = tmp_v]
      i2 == [i1 EXCEPT ![a2[w].ind] = w]
  IN [hp EXCEPT !.array = a2, !.inds = i2]

\* heap_create with room for one element less
heap_create_one_less(nb_inds) ==
  [array |-> [i \in 0..(nb_inds - 1) |-> Unset],
   inds |-> [i \in 0..(nb_inds - 1) |-> -1],
   nb_elements |-> 0,
   max_elements |-> nb_inds - 1]

heap_create(nb_inds) ==
  [array |-> [i \in 0..(nb_inds - 1) |-> Unset],
   inds |-> [i \in 0..(nb_inds - 1) |-> -1],
   nb_elements |-> 0,
   max_elements |-> nb_inds]

\* check_heap asking for one more free slot than lines 102-105 do
check_heap_one_spare(hp) ==
  /\ ~(hp.nb_elements + 1 >= hp.max_elements)
  /\ \A i \in 0..(hp.nb_elements - 1) : hp.inds[hp.array[i].ind] = i

check_heap(hp) ==
  /\ ~(hp.nb_elements >= hp.max_elements)
  /\ \A i \in 0..(hp.nb_elements - 1) : hp.inds[hp.array[i].ind] = i

\* the loop of heap_add, lines 128-132; ok is FALSE when the assert of line 129 fails
RECURSIVE SiftUp(_, _)
SiftUp(hp, i) ==
  IF i > 0 /\ hp.array[i].weight < hp.array[(i - 1) \div 2].weight
  THEN IF hp.inds[hp.array[i].ind] # i
       THEN [heap |-> hp, ok |-> FALSE]
       ELSE SiftUp(swap(hp, i, (i - 1) \div 2), (i - 1) \div 2)
  ELSE [heap |-> hp, ok |-> TRUE]

\* heap_add, lines 123-132: the vertex has no slot, append it and sift it up
heap_add_new(vertex, hp) ==
  LET i == hp.nb_elements
      h1 == [hp EXCEPT !.nb_elements = hp.nb_elements + 1]
  IN IF ~(h1.nb_elements <= h1.max_elements) THEN [heap |-> h1, ok |-> FALSE]
     ELSE SiftUp([h1 EXCEPT !.array[i] = vertex, !.inds[vertex.ind] = i], i)

\* the key comparison of line 135 with <= for <
heap_add_present_on_equal(vertex, hp) ==
  LET i == hp.inds[vertex.ind]
  IN IF vertex.weight <= hp.array[i].weight
     THEN [hp EXCEPT !.array[i] = vertex]
     ELSE hp

\* heap_add, lines 134-136: the vertex has a slot, lower its key in place
heap_add_present(vertex, hp) ==
  LET i == hp.inds[vertex.ind]
  IN IF vertex.weight < hp.array[i].weight
     THEN [hp EXCEPT !.array[i] = vertex]
     ELSE hp

\* heap_add without the test of line 122: every call appends
heap_add_always_new(vertex, hp) ==
  IF ~check_heap(hp) THEN [heap |-> hp, ok |-> FALSE]
  ELSE LET r == heap_add_new(vertex, hp)
       IN [heap |-> r.heap, ok |-> r.ok /\ check_heap(r.heap)]

\* the result is the heap when the call returns or aborts, ok tells which
heap_add(vertex, hp) ==
  IF ~check_heap(hp) THEN [heap |-> hp, ok |-> FALSE]
  ELSE IF hp.inds[vertex.ind] = -1
  THEN LET r == heap_add_new(vertex, hp)
       IN [heap |-> r.heap, ok |-> r.ok /\ check_heap(r.heap)]
  ELSE LET h1 == heap_add_present(vertex, hp)
       IN [heap |-> h1, ok |-> check_heap(h1)]

heap_empty(hp) == hp.nb_elements = 0

heap_peek(hp) == hp.array[0]

\* the loop of heap_remove, lines 182-194
RECURSIVE SiftDown(_, _)
SiftDown(hp, i) ==
  IF i < hp.nb_elements
  THEN LET left_index == i * 2 + 1
           right_index == i * 2 + 2
           l1 == IF left_index < hp.nb_elements
                    /\ hp.array[left_index].weight < hp.array[i].weight
                 THEN left_index ELSE i
           largest_index == IF right_index < hp.nb_elements
                               /\ hp.array[right_index].weight < hp.array[l1].weight
                            THEN right_index ELSE l1
       IN IF largest_index = i THEN hp
          ELSE SiftDown(swap(hp, i, largest_index), largest_index)
  ELSE hp

\* before is the content of array[nb_elements-1]; when nb_elements is 0 that
\* is array[-1], outside the allocation, and the caller supplies what is read
heap_remove(hp, before) ==
  IF ~check_heap(hp) THEN [heap |-> hp, ok |-> FALSE]
  ELSE LET moved == IF hp.nb_elements - 1 >= 0 THEN hp.array[hp.nb_elements - 1] ELSE before
           h1 == [hp EXCEPT !.array[0] = moved]
           h2 == [h1 EXCEPT !.inds[moved.ind] = 0]
           h3 == [h2 EXCEPT !.nb_elements = hp.nb_elements - 1]
           h4 == SiftDown(h3, 0)
       IN [heap |-> h4, ok |-> check_heap(h4)]

(***************************************************************************)
(* Helpers to state properties: what the heap holds, read from the live    *)
(* slots only (never through inds).                                        *)
(***************************************************************************)
Live(hp) == 0..(hp.nb_elements - 1)

InHeap(hp, ind) == \E i \in Live(hp) : hp.array[i].ind = ind

Entries(hp) == {hp.array[i] : i \in Live(hp)}

RECURSIVE NonDecreasing(_)
NonDecreasing(s) ==
  \/ Len(s) <= 1
  \/ s[1] <= s[2] /\ NonDecreasing(Tail(s))

(***************************************************************************)
(* graph_list.c: a graph is [nb_vertices, nb_edges, directed, adj_lists],  *)
(* an adjacency list is the sequence of its nodes' vertex_s, head first.   *)
(***************************************************************************)
edge_s(s, d, weight) == [src |-> s, dst |-> d, weight |-> weight]

RECURSIVE AddEdges(_, _, _, _)
AddEdges(adj_lists, directed, edges, i) ==
  IF i > Len(edges) THEN adj_lists
  ELSE LET e == edges[i]
           new_node == vertex_s(e.dst, e.weight, e.src)
           a1 == [adj_lists EXCEPT ![e.src] = <<new_node>> \o adj_lists[e.src]]
           new_node_undirected == vertex_s(e.src, e.weight, e.dst)
           a2 == IF directed THEN a1
                 ELSE [a1 EXCEPT ![e.dst] = <<new_node_undirected>> \o a1[e.dst]]
       IN AddEdges(a2, directed, edges, i + 1)

create_graph(nb_vertices, nb_edges, directed, edges) ==
  [nb_vertices |-> nb_vertices,
   nb_edges |-> nb_edges,
   directed |-> directed,
   adj_lists |-> AddEdges([i \in 0..(nb_vertices - 1) |-> <<>>], directed, edges, 1)]

get_adj_list(gr, ind) ==
  IF ind >= gr.nb_vertices THEN <<>> ELSE gr.adj_lists[ind]

(***************************************************************************)
(* dijkstra (main_dijkstra.c).  x + y on doubles where INFINITY absorbs.   *)
(***************************************************************************)
Plus(x, y) == IF x = Infinity \/ y = Infinity THEN Infinity ELSE x + y

\* the loop of lines 176-187 with new_weight = adj->vertex.weight, the
\* distance of v left out
RECURSIVE Relax_edge_weight_only(_, _, _, _)
Relax_edge_weight_only(adj, v, d, hp) ==
  IF adj = <<>> THEN [heap |-> hp, ok |-> TRUE]
  ELSE LET new_weight == Head(adj).weight
       IN IF new_weight < d[Head(adj).ind].weight
          THEN LET r == heap_add(vertex_s(Head(adj).ind, new_weight, v.ind), hp)
               IN IF r.ok THEN Relax_edge_weight_only(Tail(adj), v, d, r.heap) ELSE r
          ELSE Relax_edge_weight_only(Tail(adj), v, d, hp)

\* the loop over the adjacency list, lines 176-187: dist is not written here
RECURSIVE Relax(_, _, _, _)
Relax(adj, v, d, hp) ==
  IF adj = <<>> THEN [heap |-> hp, ok |-> TRUE]
  ELSE LET new_weight == Plus(v.weight, Head(adj).weight)
       IN IF new_weight < d[Head(adj).ind].weight
          THEN LET r == heap_add(vertex_s(Head(adj).ind, new_weight, v.ind), hp)
               IN IF r.ok THEN Relax(Tail(adj), v, d, r.heap) ELSE r
          ELSE Relax(Tail(adj), v, d, hp)

\* lines 145-160 with the source made its own predecessor
DijkstraStart_self_prev ==
  /\ pc = "start"
  /\ LET d0 == [i \in 0..(g.nb_vertices - 1) |-> vertex_s(i, Infinity, -1)]
         d1 == [d0 EXCEPT ![src].weight = 0, ![src].prev = src]
         r == heap_add(d1[src], heap_create(g.nb_vertices))
     IN /\ dist' = d1
        /\ visited_vertices' = [i \in 0..(g.nb_vertices - 1) |-> FALSE]
        /\ q' = r.heap
        /\ pc' = IF r.ok THEN "loop" ELSE "abort"
  /\ UNCHANGED <<g, src>>
  /\ UNCHANGED <<previous, heapVars, matrixVars>>

\* lines 145-160
DijkstraStart ==
  /\ pc = "start"
  /\ LET d0 == [i \in 0..(g.nb_vertices - 1) |-> vertex_s(i, Infinity, -1)]
         d1 == [d0 EXCEPT ![src].weight = 0]
         r == heap_add(d1[src], heap_create(g.nb_vertices))
     IN /\ dist' = d1
        /\ visited_vertices' = [i \in 0..(g.nb_vertices - 1) |-> FALSE]
        /\ q' = r.heap
        /\ pc' = IF r.ok THEN "loop" ELSE "abort"
  /\ UNCHANGED <<g, src>>
  /\ UNCHANGED <<previous, heapVars, matrixVars>>

\* one turn of the while loop without the test of line 169: the vertex
\* extracted is processed whether it was visited or not
DijkstraVisit_no_visited_test ==
  /\ pc = "loop"
  /\ ~heap_empty(q)
  /\ LET v == heap_peek(q)
         r == heap_remove(q, Unset)
     IN IF ~r.ok
        THEN /\ q' = r.heap
             /\ pc' = "abort"
             /\ UNCHANGED <<dist, visited_vertices>>
        ELSE LET d1 == [dist EXCEPT ![v.ind].weight = v.weight, ![v.ind].prev = v.prev]
                 rr == Relax(get_adj_list(g, v.ind), v, d1, r.heap)
             IN /\ visited_vertices' = [visited_vertices EXCEPT ![v.ind] = TRUE]
                /\ dist' = d1
                /\ q' = rr.heap
                /\ pc' = IF rr.ok THEN "loop" ELSE "abort"
  /\ UNCHANGED <<g, src>>
  /\ UNCHANGED <<previous, heapVars, matrixVars>>

\* one turn of the while loop, lines 163-189
DijkstraVisit ==
  /\ pc = "loop"
  /\ ~heap_empty(q)
  /\ LET v == heap_peek(q)
         r == heap_remove(q, Unset)
     IN IF ~r.ok
        THEN /\ q' = r.heap
             /\ pc' = "abort"
             /\ UNCHANGED <<dist, visited_vertices>>
        ELSE IF visited_vertices[v.ind]
        THEN /\ q' = r.heap
             /\ UNCHANGED <<dist, visited_vertices, pc>>
        ELSE LET d1 == [dist EXCEPT ![v.ind].weight = v.weight, ![v.ind].prev = v.prev]
                 rr == Relax(get_adj_list(g, v.ind), v, d1, r.heap)
             IN /\ visited_vertices' = [visited_vertices EXCEPT ![v.ind] = TRUE]
                /\ dist' = d1
                /\ q' = rr.heap
                /\ pc' = IF rr.ok THEN "loop" ELSE "abort"
  /\ UNCHANGED <<g, src>>
  /\ UNCHANGED <<previous, heapVars, matrixVars>>

\* the loop ends, lines 190-192
DijkstraReturn ==
  /\ pc = "loop"
  /\ heap_empty(q)
  /\ pc' = "done"
  /\ UNCHANGED <<g, src, dist, visited_vertices, q>>
  /\ UNCHANGED <<previous, heapVars, matrixVars>>

(***************************************************************************)
(* dijkstra_markov (main_dijkstra_markov.c).  A probability is modelled by *)
(* its negated logarithm, counted in halves: Probability(k) is exp(-k/2),  *)
(* Probability(Infinity) is 0.0.  Products, comparisons, exp and log are   *)
(* exact on these values.  A key of the heap is a double used as it is,    *)
(* also counted in halves.                                                 *)
(***************************************************************************)
Probability(k) == [neglog |-> k]

\* the double 1.0 as a key of the heap, line 122-123
One == 2

\* x * y
Times(x, y) == Probability(Plus(x.neglog, y.neglog))

\* x > y
Greater(x, y) == x.neglog < y.neglog

\* exp(-key)
exp_neg(key) == Probability(key)

\* -log(p)
neg_log(p) == p.neglog

\* the loop over the adjacency list, lines 137-147
RECURSIVE RelaxMarkov(_, _, _, _)
RelaxMarkov(adj, v, d, hp) ==
  IF adj = <<>> THEN [heap |-> hp, ok |-> TRUE]
  ELSE LET new_weight == Times(v.weight, Head(adj).weight)
       IN IF Greater(new_weight, d[Head(adj).ind].weight)
          THEN LET r == heap_add(vertex_s(Head(adj).ind, neg_log(new_weight), v.ind), hp)
               IN IF r.ok THEN RelaxMarkov(Tail(adj), v, d, r.heap) ELSE r
          ELSE RelaxMarkov(Tail(adj), v, d, hp)

\* lines 108-123: dist[src].weight = 1.0 goes to the heap as the key 1.0
MarkovStart ==
  /\ pc = "markov_start"
  /\ LET d0 == [i \in 0..(g.nb_vertices - 1) |-> vertex_s(i, Probability(Infinity), -1)]
         d1 == [d0 EXCEPT ![src].weight = Probability(0)]
         r == heap_add(vertex_s(src, One, -1), heap_create(g.nb_vertices))
     IN /\ dist' = d1
        /\ visited_vertices' = [i \in 0..(g.nb_vertices - 1) |-> FALSE]
        /\ q' = r.heap
        /\ pc' = IF r.ok THEN "markov_loop" ELSE "markov_abort"
  /\ UNCHANGED <<g, src>>
  /\ UNCHANGED <<previous, heapVars, matrixVars>>

\* one turn of the while loop, lines 125-149
MarkovVisit ==
  /\ pc = "markov_loop"
  /\ ~heap_empty(q)
  /\ LET top == heap_peek(q)
         r == heap_remove(q, Unset)
         v == [top EXCEPT !.weight = exp_neg(top.weight)]
     IN IF ~r.ok
        THEN /\ q' = r.heap
             /\ pc' = "markov_abort"
             /\ UNCHANGED <<dist, visited_vertices>>
        ELSE IF visited_vertices[v.ind]
        THEN /\ q' = r.heap
             /\ UNCHANGED <<dist, visited_vertices, pc>>
        ELSE LET d1 == [dist EXCEPT ![v.ind].weight = v.weight, ![v.ind].prev = v.prev]
                 rr == RelaxMarkov(get_adj_list(g, v.ind), v, d1, r.heap)
             IN /\ visited_vertices' = [visited_vertices EXCEPT ![v.ind] = TRUE]
                /\ dist' = d1
                /\ q' = rr.heap
                /\ pc' = IF rr.ok THEN "markov_loop" ELSE "markov_abort"
  /\ UNCHANGED <<g, src>>
  /\ UNCHANGED <<previous, heapVars, matrixVars>>

\* the loop ends, lines 150-152
MarkovReturn ==
  /\ pc = "markov_loop"
  /\ heap_empty(q)
  /\ pc' = "markov_done"
  /\ UNCHANGED <<g, src, dist, visited_vertices, q>>
  /\ UNCHANGED <<previous, heapVars, matrixVars>>

(***************************************************************************)
(* Reference values, computed from the adjacency lists alone: the least    *)
(* weight of a path of at most k edges from s to each vertex.              *)
(***************************************************************************)
Min(S) == CHOOSE x \in S : \A y \in S : x <= y

Arcs(gr) ==
  UNION {{edge_s(u, gr.adj_lists[u][k].ind, gr.adj_lists[u][k].weight) :
            k \in 1..Len(gr.adj_lists[u])} : u \in 0..(gr.nb_vertices - 1)}

RECURSIVE PathDist(_, _, _)
PathDist(gr, s, k) ==
  IF k = 0 THEN [w \in 0..(gr.nb_vertices - 1) |-> IF w = s THEN 0 ELSE Infinity]
  ELSE LET p == PathDist(gr, s, k - 1)
       IN [w \in 0..(gr.nb_vertices - 1) |->
             Min({p[w]} \cup {Plus(p[e.src], e.weight) : e \in {a \in Arcs(gr) : a.dst = w}})]

ShortestPath(gr, s) == PathDist(gr, s, gr.nb_vertices - 1)

NonNegative(gr) == \A e \in Arcs(gr) : e.weight >= 0

\* w is reachable from s when some path of at most n-1 edges leads to it
Reachable(gr, s) ==
  LET RECURSIVE Reach(_)
      Reach(k) == IF k = 0 THEN {s}
                  ELSE Reach(k - 1) \cup {e.dst : e \in {a \in Arcs(gr) : a.src \in Reach(k - 1)}}
  IN Reach(gr.nb_vertices - 1)

(***************************************************************************)
(* print_path of main_dijkstra.c: the vertices met from dst by following   *)
(* prev until a vertex whose prev is -1.  The source loops without a       *)
(* bound; the model stops after k links.                                   *)
(***************************************************************************)
RECURSIVE print_path(_, _, _)
print_path(v, dst, k) ==
  IF v[dst].prev = -1 \/ k = 0 THEN <<dst>>
  ELSE <<dst>> \o print_path(v, v[dst].prev, k - 1)

\* the least weight of an edge from u to w, Infinity when there is none
EdgeWeight(gr, u, w) ==
  Min({Infinity} \cup {e.weight : e \in {a \in Arcs(gr) : a.src = u /\ a.dst = w}})

\* the weight of the path whose vertices, from its end back to its start,
\* are those of path
RECURSIVE PathWeight(_, _)
PathWeight(gr, path) ==
  IF Len(path) <= 1 THEN 0
  ELSE Plus(EdgeWeight(gr, path[2], path[1]), PathWeight(gr, Tail(path)))

(***************************************************************************)
(* graph_matrix.c: the graph as an adjacency matrix, Infinity where there  *)
(* is no edge.  create_graph leaves dist and parent as malloc returned     *)
(* them; the engines write every slot before they read one.                *)
(***************************************************************************)
RECURSIVE SetWeights(_, _, _, _)
SetWeights(adj_matrix, directed, edges, i) ==
  IF i > Len(edges) THEN adj_matrix
  ELSE LET e == edges[i]
           m1 == [adj_matrix EXCEPT ![e.src][e.dst] = e.weight]
           m2 == IF directed THEN m1 ELSE [m1 EXCEPT ![e.dst][e.src] = e.weight]
       IN SetWeights(m2, directed, edges, i + 1)

create_graph_matrix(nb_vertices, nb_edges, directed, edges) ==
  [nb_vertices |-> nb_vertices,
   nb_edges |-> nb_edges,
   directed |-> directed,
   adj_matrix |-> SetWeights([i \in 0..(nb_vertices - 1) |->
                                [j \in 0..(nb_vertices - 1) |-> IF i = j THEN 0 ELSE Infinity]],
                             directed, edges, 1),
   dist |-> <<>>,
   parent |-> <<>>]

\* the graph_s of Bellman-Ford has the flag neg_weight_cycle as well
create_graph_bf(nb_vertices, nb_edges, directed, edges) ==
  [neg_weight_cycle |-> FALSE] @@ create_graph_matrix(nb_vertices, nb_edges, directed, edges)

(***************************************************************************)
(* bellman_ford (main_bellman_ford.c).                                     *)
(***************************************************************************)

\* the loops of lines 71-81 without the assignment of line 78: parent is
\* left as it was
RECURSIVE RelaxPairs_keep_parent(_, _, _, _)
RelaxPairs_keep_parent(gr, d, p, i) ==
  LET w == i \div gr.nb_vertices
      u == i % gr.nb_vertices
      new_distance == Plus(d[u], gr.adj_matrix[u][w])
  IN IF i >= gr.nb_vertices * gr.nb_vertices THEN [dist |-> d, parent |-> p]
     ELSE IF gr.adj_matrix[u][w] # Infinity /\ new_distance < d[w]
     THEN RelaxPairs_keep_parent(gr, [d EXCEPT ![w] = new_distance], p, i + 1)
     ELSE RelaxPairs_keep_parent(gr, d, p, i + 1)

\* the loops over w and u taking a distance that is not greater as shorter
RECURSIVE RelaxPairs_not_greater(_, _, _, _)
RelaxPairs_not_greater(gr, d, p, i) ==
  LET w == i \div gr.nb_vertices
      u == i % gr.nb_vertices
      new_distance == Plus(d[u], gr.adj_matrix[u][w])
  IN IF i >= gr.nb_vertices * gr.nb_vertices THEN [dist |-> d, parent |-> p]
     ELSE IF gr.adj_matrix[u][w] # Infinity /\ u # w /\ d[u] # Infinity /\ new_distance <= d[w]
     THEN RelaxPairs_not_greater(gr, [d EXCEPT ![w] = new_distance], [p EXCEPT ![w] = u], i + 1)
     ELSE RelaxPairs_not_greater(gr, d, p, i + 1)

\* the body of the loops over w and u, lines 71-81, from the pair numbered i
\* on: pair i is (w, u) = (i \div n, i % n)
RECURSIVE RelaxPairs(_, _, _, _)
RelaxPairs(gr, d, p, i) ==
  LET w == i \div gr.nb_vertices
      u == i % gr.nb_vertices
      new_distance == Plus(d[u], gr.adj_matrix[u][w])
  IN IF i >= gr.nb_vertices * gr.nb_vertices THEN [dist |-> d, parent |-> p]
     ELSE IF gr.adj_matrix[u][w] # Infinity /\ new_distance < d[w]
     THEN RelaxPairs(gr, [d EXCEPT ![w] = new_distance], [p EXCEPT ![w] = u], i + 1)
     ELSE RelaxPairs(gr, d, p, i + 1)

\* lines 56-67 with the tables of an earlier call kept where they exist
BFInit_keep_tables ==
  /\ bf.pc = "start"
  /\ gbf' = [gbf EXCEPT
               !.dist = [w \in 0..(gbf.nb_vertices - 1) |->
                           IF w = src THEN 0
                           ELSE IF gbf.dist # <<>> THEN gbf.dist[w] ELSE Infinity],
               !.parent = [w \in 0..(gbf.nb_vertices - 1) |->
                             IF w = src THEN w
                             ELSE IF gbf.parent # <<>> THEN gbf.parent[w] ELSE -1]]
  /\ bf' = [pc |-> "relax", k |-> 1, passes |-> 0]
  /\ UNCHANGED <<previous, heapVars, dijkstraVars, gfw, fw>>

\* the test of the loops of lines 91-103 looking only at edges of negative
\* weight
Improves_negative_edges(gr, d) ==
  \E w \in 0..(gr.nb_vertices - 1), u \in 0..(gr.nb_vertices - 1) :
    /\ gr.adj_matrix[u][w] < 0
    /\ Plus(d[u], gr.adj_matrix[u][w]) < d[w]

\* the test of the loops of lines 91-103 stopped after w = 0
Improves_first_vertex(gr, d) ==
  \E u \in 0..(gr.nb_vertices - 1) :
    gr.adj_matrix[u][0] # Infinity /\ Plus(d[u], gr.adj_matrix[u][0]) < d[0]

\* the test of the loops of lines 91-103: some edge still lowers a distance
Improves(gr, d) ==
  \E w \in 0..(gr.nb_vertices - 1), u \in 0..(gr.nb_vertices - 1) :
    gr.adj_matrix[u][w] # Infinity /\ Plus(d[u], gr.adj_matrix[u][w]) < d[w]

\* lines 56-67
BFInit ==
  /\ bf.pc = "start"
  /\ gbf' = [gbf EXCEPT
               !.dist = [w \in 0..(gbf.nb_vertices - 1) |-> IF w # src THEN Infinity ELSE 0],
               !.parent = [w \in 0..(gbf.nb_vertices - 1) |-> IF w # src THEN -1 ELSE w]]
  /\ bf' = [pc |-> "relax", k |-> 1, passes |-> 0]
  /\ UNCHANGED <<previous, heapVars, dijkstraVars, gfw, fw>>

\* one turn of the loop of line 70: for (k = 1; k < nb_vertices - 1; k++)
BFPass ==
  /\ bf.pc = "relax"
  /\ bf.k < gbf.nb_vertices - 1
  /\ LET r == RelaxPairs(gbf, gbf.dist, gbf.parent, 0)
     IN gbf' = [gbf EXCEPT !.dist = r.dist, !.parent = r.parent]
  /\ bf' = [bf EXCEPT !.k = @ + 1, !.passes = @ + 1]
  /\ UNCHANGED <<previous, heapVars, dijkstraVars, gfw, fw>>

\* the loop of line 70 ends; the detection pass, lines 91-103, and the return
BFDetect ==
  /\ bf.pc = "relax"
  /\ ~(bf.k < gbf.nb_vertices - 1)
  /\ gbf' = [gbf EXCEPT !.neg_weight_cycle = IF Improves(gbf, gbf.dist) THEN TRUE ELSE @]
  /\ bf' = [bf EXCEPT !.pc = "done"]
  /\ UNCHANGED <<previous, heapVars, dijkstraVars, gfw, fw>>

\* print_path of main_bellman_ford.c: "no path" (the empty sequence) when
\* parent[dst] is -1, else the vertices met from dst by following parent
\* until a vertex that is its own parent; the model stops after k links
RECURSIVE ParentChain(_, _, _)
ParentChain(parent, current, k) ==
  IF parent[current] = current \/ k = 0 THEN <<current>>
  ELSE <<current>> \o ParentChain(parent, parent[current], k - 1)

print_path_bf(gr, dst, k) ==
  IF gr.parent[dst] = -1 THEN <<>> ELSE ParentChain(gr.parent, dst, k)

(***************************************************************************)
(* floyd_warshall (main_floyd_warshall.c).                                 *)
(***************************************************************************)

\* the loops over v and w for one k leaving parent as it was
RECURSIVE ThroughK_keep_parent(_, _, _, _, _)
ThroughK_keep_parent(n, d, p, k, i) ==
  LET v == i \div n
      w == i % n
      new_distance == Plus(d[v][k], d[k][w])
  IN IF i >= n * n THEN [dist |-> d, parent |-> p]
     ELSE IF new_distance < d[v][w]
     THEN ThroughK_keep_parent(n, [d EXCEPT ![v][w] = new_distance], p, k, i + 1)
     ELSE ThroughK_keep_parent(n, d, p, k, i + 1)

\* the body of the loops over v and w, lines 77-85, for one k, from the pair
\* numbered i on: pair i is (v, w) = (i \div n, i % n)
RECURSIVE ThroughK(_, _, _, _, _)
ThroughK(n, d, p, k, i) ==
  LET v == i \div n
      w == i % n
      new_distance == Plus(d[v][k], d[k][w])
  IN IF i >= n * n THEN [dist |-> d, parent |-> p]
     ELSE IF new_distance < d[v][w]
     THEN ThroughK(n, [d EXCEPT ![v][w] = new_distance], [p EXCEPT ![v][w] = p[k][w]], k, i + 1)
     ELSE ThroughK(n, d, p, k, i + 1)

\* lines 60-73
FWInit ==
  /\ fw.pc = "start"
  /\ gfw' = [gfw EXCEPT
               !.dist = gfw.adj_matrix,
               !.parent = [v \in 0..(gfw.nb_vertices - 1) |->
                            [w \in 0..(gfw.nb_vertices - 1) |->
                               IF gfw.adj_matrix[v][w] # Infinity THEN v ELSE -1]]]
  /\ fw' = [fw EXCEPT !.pc = "loop", !.k = 0]
  /\ UNCHANGED <<previous, heapVars, dijkstraVars, gbf, bf>>

\* one turn of the loop of line 76 with dist and adj_matrix one and the same
\* table
FWStep_shared_table ==
  /\ fw.pc = "loop"
  /\ fw.k < gfw.nb_vertices
  /\ LET r == ThroughK(gfw.nb_vertices, gfw.dist, gfw.parent, fw.k, 0)
     IN gfw' = [gfw EXCEPT !.dist = r.dist, !.parent = r.parent, !.adj_matrix = r.dist]
  /\ fw' = [fw EXCEPT !.k = @ + 1]
  /\ UNCHANGED <<previous, heapVars, dijkstraVars, gbf, bf>>

\* one turn of the loop of line 76
FWStep ==
  /\ fw.pc = "loop"
  /\ fw.k < gfw.nb_vertices
  /\ LET r == ThroughK(gfw.nb_vertices, gfw.dist, gfw.parent, fw.k, 0)
     IN gfw' = [gfw EXCEPT !.dist = r.dist, !.parent = r.parent]
  /\ fw' = [fw EXCEPT !.k = @ + 1]
  /\ UNCHANGED <<previous, heapVars, dijkstraVars, gbf, bf>>

\* the loop of line 76 ends, lines 88-90: return true
FWReturn ==
  /\ fw.pc = "loop"
  /\ ~(fw.k < gfw.nb_vertices)
  /\ fw' = [fw EXCEPT !.pc = "done", !.ret = TRUE]
  /\ UNCHANGED <<previous, heapVars, dijkstraVars, gbf, bf, gfw>>

(***************************************************************************)
(* Reference values for a graph in matrix form, from its finite entries.   *)
(***************************************************************************)
MatrixArcs(gr) ==
  {edge_s(u, w, gr.adj_matrix[u][w]) :
     u \in 0..(gr.nb_vertices - 1), w \in 0..(gr.nb_vertices - 1)} \
  {edge_s(u, w, Infinity) : u \in 0..(gr.nb_vertices - 1), w \in 0..(gr.nb_vertices - 1)}

\* the least weight of a walk of at most k edges of arcs from s to each vertex
RECURSIVE WalkDist(_, _, _, _)
WalkDist(arcs, n, s, k) ==
  IF k = 0 THEN [w \in 0..(n - 1) |-> IF w = s THEN 0 ELSE Infinity]
  ELSE LET p == WalkDist(arcs, n, s, k - 1)
       IN [w \in 0..(n - 1) |->
             Min({p[w]} \cup {Plus(p[e.src], e.weight) : e \in {a \in arcs : a.dst = w}})]

ReachableBy(arcs, n, s) == {w \in 0..(n - 1) : WalkDist(arcs, n, s, n - 1)[w] < Infinity}

\* some vertex reachable from s lies on a closed walk of negative weight
NegativeCycleFrom(arcs, n, s) ==
  \E v \in ReachableBy(arcs, n, s) : WalkDist(arcs, n, v, n)[v] < 0

\* the weight of the path given by its vertices from its end back to its
\* start, in a graph in matrix form
RECURSIVE MatrixPathWeight(_, _)
MatrixPathWeight(gr, path) ==
  IF Len(path) <= 1 THEN 0
  ELSE Plus(gr.adj_matrix[path[2]][path[1]], MatrixPathWeight(gr, Tail(path)))

(***************************************************************************)
(* The heap driven by a client that calls heap_add, heap_peek and          *)
(* heap_remove in any order.  ret is what the last call returned when it   *)
(* returned a vertex_s; last is the call itself.                           *)
(***************************************************************************)
Call(op, v, wasIn) == [op |-> op, v |-> v, wasIn |-> wasIn]

\* no engine has been called on the graph before
FirstCall == previous = <<>>

HeapIdle ==
  /\ status = "ok"
  /\ ret = Unset
  /\ last = Call("heap_create", Unset, FALSE)
  /\ phase = "adds"
  /\ drained = <<>>
  /\ added = {}
  /\ fresh = TRUE

DijkstraIdle ==
  /\ g = create_graph(1, 0, TRUE, <<>>)
  /\ src = 0
  /\ dist = <<>>
  /\ visited_vertices = <<>>
  /\ q = heap_create(1)
  /\ pc = "idle"

BellmanFordIdle ==
  /\ gbf = create_graph_bf(1, 0, TRUE, <<>>)
  /\ bf = [pc |-> "idle", k |-> 0, passes |-> 0]

FloydWarshallIdle ==
  /\ gfw = create_graph_matrix(1, 0, TRUE, <<>>)
  /\ fw = [pc |-> "idle", k |-> 0, ret |-> FALSE]

Init ==
  /\ \E cap \in 1..MaxCap : h = heap_create(cap)
  /\ HeapIdle
  /\ FirstCall
  /\ DijkstraIdle
  /\ BellmanFordIdle
  /\ FloydWarshallIdle

HeapAdd(vertex) ==
  /\ status = "ok"
  /\ LET r == heap_add(vertex, h)
     IN /\ h' = r.heap
        /\ status' = IF r.ok THEN "ok" ELSE "abort"
  /\ ret' = Unset
  /\ last' = Call("heap_add", vertex, InHeap(h, vertex.ind))
  /\ UNCHANGED <<previous, dijkstraVars, matrixVars>>

HeapPeek ==
  /\ status = "ok"
  /\ IF heap_empty(h)
     THEN status' = "abort" /\ ret' = Unset
     ELSE status' = "ok" /\ ret' = heap_peek(h)
  /\ last' = Call("heap_peek", Unset, FALSE)
  /\ h' = h
  /\ UNCHANGED <<previous, dijkstraVars, matrixVars>>

\* heap_remove of an empty heap reads array[-1]: the call either faults
\* there, or goes on with whatever it read
HeapRemove ==
  /\ status = "ok"
  /\ IF h.nb_elements >= 1
     THEN LET r == heap_remove(h, Unset)
          IN /\ h' = r.heap
             /\ status' = IF r.ok THEN "ok" ELSE "abort"
     ELSE IF ~check_heap(h)
     THEN h' = h /\ status' = "abort"
     ELSE /\ status' = "ub"
          /\ \/ h' = h
             \/ \E junk \in Vertices(h.max_elements) : h' = heap_remove(h, junk).heap
  /\ ret' = Unset
  /\ last' = Call("heap_remove", Unset, FALSE)
  /\ UNCHANGED <<previous, dijkstraVars, matrixVars>>

Next ==
  \/ \E vertex \in Vertices(h.max_elements) :
       HeapAdd(vertex) /\ UNCHANGED <<phase, drained, added, fresh>>
  \/ HeapPeek /\ UNCHANGED <<phase, drained, added, fresh>>
  \/ HeapRemove /\ UNCHANGED <<phase, drained, added, fresh>>

Spec == Init /\ [][Next]_vars

(***************************************************************************)
(* The heap driven by a client that first only adds, then extracts         *)
(* (heap_peek, heap_remove) until heap_empty, as the loop of dijkstra      *)
(* does.                                                                   *)
(***************************************************************************)
Fill(vertex) ==
  /\ phase = "adds"
  /\ HeapAdd(vertex)
  /\ added' = added \cup {vertex.ind}
  /\ fresh' = (fresh /\ vertex.ind \notin added)
  /\ UNCHANGED <<phase, drained>>

Extract ==
  /\ status = "ok"
  /\ ~heap_empty(h)
  /\ LET r == heap_remove(h, Unset)
     IN /\ h' = r.heap
        /\ status' = IF r.ok THEN "ok" ELSE "abort"
  /\ ret' = heap_peek(h)
  /\ last' = Call("heap_remove", Unset, FALSE)
  /\ phase' = "drain"
  /\ drained' = Append(drained, heap_peek(h).weight)
  /\ fresh' = FALSE
  /\ UNCHANGED added
  /\ UNCHANGED <<previous, dijkstraVars, matrixVars>>

NextFillDrain ==
  \/ \E vertex \in Vertices(h.max_elements) : Fill(vertex)
  \/ Extract

SpecFillDrain == Init /\ [][NextFillDrain]_vars

(***************************************************************************)
(* dijkstra called on a graph made by create_graph from an edge array.     *)
(***************************************************************************)
Edges(n) ==
  {edge_s(s, d, w) : s \in 0..(n - 1), d \in 0..(n - 1), w \in 0..MaxWeight}

EdgeArrays(n) ==
  UNION {[1..k -> {e \in Edges(n) : e.src # e.dst}] : k \in 0..MaxEdges}

\* two command lines of four vertices, beyond the bounds above: the
\* undirected graph 0-1 (1), 1-2 (2), 0-2 (5), 2-3 (1), and a directed graph
\* with two edges from 0 to 2
Scenarios ==
  {[nb_vertices |-> 4, directed |-> FALSE, src |-> 0,
    edges |-> <<edge_s(0, 1, 1), edge_s(1, 2, 2), edge_s(0, 2, 5), edge_s(2, 3, 1)>>],
   [nb_vertices |-> 4, directed |-> TRUE, src |-> 0,
    edges |-> <<edge_s(0, 3, 1), edge_s(0, 2, 0), edge_s(0, 2, 1), edge_s(0, 1, 1),
                edge_s(2, 1, 0)>>]}

InitDijkstra ==
  /\ \/ /\ \E n \in 1..MaxVertices, directed \in BOOLEAN :
             \E edges \in EdgeArrays(n) :
               g = create_graph(n, Len(edges), directed, edges)
        /\ src \in 0..(g.nb_vertices - 1)
     \/ \E s \in Scenarios :
          /\ g = create_graph(s.nb_vertices, Len(s.edges), s.directed, s.edges)
          /\ src = s.src
  /\ dist = <<>>
  /\ visited_vertices = <<>>
  /\ q = heap_create(1)
  /\ pc = "start"
  /\ h = heap_create(1)
  /\ HeapIdle
  /\ FirstCall
  /\ BellmanFordIdle
  /\ FloydWarshallIdle

NextDijkstra ==
  \/ DijkstraStart
  \/ DijkstraVisit
  \/ DijkstraReturn

SpecDijkstra == InitDijkstra /\ [][NextDijkstra]_vars

(***************************************************************************)
(* dijkstra_markov called on a graph made by create_graph from an edge     *)
(* array whose weights are probabilities.                                  *)
(***************************************************************************)
MarkovEdges(n) ==
  {edge_s(e.src, e.dst, Probability(e.weight)) : e \in {a \in Edges(n) : a.src # a.dst}}

MarkovEdgeArrays(n) ==
  UNION {[1..k -> MarkovEdges(n)] : k \in 0..MaxEdges}

\* the chain 0->1 (0.6), 0->2 (0.4), 1->2 (1.0): 0.6 and 0.4 are taken as
\* exp(-1/2) = 0.6065 and exp(-1) = 0.3679, which keeps 0.6 * 1.0 > 0.4
Chain == <<edge_s(0, 1, Probability(1)), edge_s(0, 2, Probability(2)),
           edge_s(1, 2, Probability(0))>>

InitMarkov ==
  /\ \/ /\ \E n \in 1..MaxVertices, directed \in BOOLEAN :
             \E edges \in MarkovEdgeArrays(n) :
               g = create_graph(n, Len(edges), directed, edges)
        /\ src \in 0..(g.nb_vertices - 1)
     \/ /\ g = create_graph(3, Len(Chain), TRUE, Chain)
        /\ src = 0
  /\ dist = <<>>
  /\ visited_vertices = <<>>
  /\ q = heap_create(1)
  /\ pc = "markov_start"
  /\ h = heap_create(1)
  /\ HeapIdle
  /\ FirstCall
  /\ BellmanFordIdle
  /\ FloydWarshallIdle

NextMarkov ==
  \/ MarkovStart
  \/ MarkovVisit
  \/ MarkovReturn

SpecMarkov == InitMarkov /\ [][NextMarkov]_vars

(***************************************************************************)
(* bellman_ford called on a graph in matrix form made from an edge array:  *)
(* self-loops and negative weights included.                               *)
(***************************************************************************)
MatrixEdges(n) ==
  {edge_s(s, d, w) : s \in 0..(n - 1), d \in 0..(n - 1), w \in (0 - MaxNegative)..MaxWeight}

MatrixEdgeArrays(n) ==
  UNION {[1..k -> MatrixEdges(n)] : k \in 0..MaxMatrixEdges}

InitBellmanFord ==
  /\ \E n \in 1..MaxMatrixVertices, directed \in BOOLEAN :
       \E edges \in MatrixEdgeArrays(n) :
         gbf = create_graph_bf(n, Len(edges), directed, edges)
  /\ src \in 0..(gbf.nb_vertices - 1)
  /\ bf = [pc |-> "start", k |-> 0, passes |-> 0]
  /\ g = create_graph(1, 0, TRUE, <<>>)
  /\ dist = <<>>
  /\ visited_vertices = <<>>
  /\ q = heap_create(1)
  /\ pc = "idle"
  /\ h = heap_create(1)
  /\ HeapIdle
  /\ FirstCall
  /\ FloydWarshallIdle

NextBellmanFord ==
  \/ BFInit
  \/ BFPass
  \/ BFDetect

SpecBellmanFord == InitBellmanFord /\ [][NextBellmanFord]_vars

(***************************************************************************)
(* floyd_warshall called on a graph in matrix form made from an edge       *)
(* array.                                                                  *)
(***************************************************************************)
InitFloydWarshall ==
  /\ \E n \in 1..MaxMatrixVertices, directed \in BOOLEAN :
       \E edges \in MatrixEdgeArrays(n) :
         gfw = create_graph_matrix(n, Len(edges), directed, edges)
  /\ fw = [pc |-> "start", k |-> 0, ret |-> FALSE]
  /\ h = heap_create(1)
  /\ HeapIdle
  /\ FirstCall
  /\ DijkstraIdle
  /\ BellmanFordIdle

NextFloydWarshall ==
  \/ FWInit
  \/ FWStep
  \/ FWReturn

SpecFloydWarshall == InitFloydWarshall /\ [][NextFloydWarshall]_vars

(***************************************************************************)
(* One of the three single-source engines called on a graph made for it.   *)
(***************************************************************************)
InitSingleSource ==
  \/ InitDijkstra
  \/ InitMarkov
  \/ InitBellmanFord

NextSingleSource ==
  \/ NextDijkstra
  \/ NextMarkov
  \/ NextBellmanFord

SpecSingleSource == InitSingleSource /\ [][NextSingleSource]_vars

(***************************************************************************)
(* One edge array given to the three engines: the graph is made in list    *)
(* form for dijkstra and in matrix form for bellman_ford and               *)
(* floyd_warshall, which are called one after the other.                   *)
(***************************************************************************)
\* the edge array 0->1 (-1), 1->0 (-1), outside EdgeArrays by its weights
NegativeTwoCycle == <<edge_s(0, 1, -1), edge_s(1, 0, -1)>>

\* the edge array of one edge from vertex 0 to itself, outside EdgeArrays
\* by its endpoints
SelfLoop == <<edge_s(0, 0, 1)>>

InitAgreement ==
  /\ \E n \in 1..MaxVertices, directed \in BOOLEAN :
       \E edges \in EdgeArrays(n)
                     \cup (IF n = 2 /\ directed THEN {NegativeTwoCycle} ELSE {})
                     \cup (IF n <= 2 THEN {SelfLoop} ELSE {}) :
         /\ g = create_graph(n, Len(edges), directed, edges)
         /\ gbf = create_graph_bf(n, Len(edges), directed, edges)
         /\ gfw = create_graph_matrix(n, Len(edges), directed, edges)
  /\ src \in 0..(g.nb_vertices - 1)
  /\ dist = <<>>
  /\ visited_vertices = <<>>
  /\ q = heap_create(1)
  /\ pc = "start"
  /\ bf = [pc |-> "start", k |-> 0, passes |-> 0]
  /\ fw = [pc |-> "start", k |-> 0, ret |-> FALSE]
  /\ h = heap_create(1)
  /\ HeapIdle
  /\ FirstCall

NextAgreement ==
  \/ DijkstraStart
  \/ DijkstraVisit
  \/ DijkstraReturn
  \/ pc \in {"done", "abort"} /\ BFInit
  \/ pc \in {"done", "abort"} /\ BFPass
  \/ pc \in {"done", "abort"} /\ BFDetect
  \/ bf.pc = "done" /\ FWInit
  \/ bf.pc = "done" /\ FWStep
  \/ bf.pc = "done" /\ FWReturn

SpecAgreement == InitAgreement /\ [][NextAgreement]_vars

(***************************************************************************)
(* An engine called a second time on the graph object it has already been  *)
(* given: dijkstra and floyd_warshall with the same arguments,             *)
(* bellman_ford with the same source or with the next vertex as source.    *)
(* The tables of the first call are kept in previous.  The graphs in       *)
(* matrix form have at most MaxVertices vertices here.                     *)
(***************************************************************************)
Returned(s, d, p, neg) ==
  [src |-> s, dist |-> d, parent |-> p, neg_weight_cycle |-> neg]

DijkstraAgain ==
  /\ pc = "done"
  /\ previous = <<>>
  /\ previous' = Returned(src, dist, <<>>, FALSE)
  /\ pc' = "start"
  /\ dist' = <<>>
  /\ visited_vertices' = <<>>
  /\ q' = heap_create(1)
  /\ UNCHANGED <<g, src>>
  /\ UNCHANGED <<heapVars, matrixVars>>

BFAgain ==
  /\ bf.pc = "done"
  /\ previous = <<>>
  /\ previous' = Returned(src, gbf.dist, gbf.parent, gbf.neg_weight_cycle)
  /\ src' \in {src, (src + 1) % gbf.nb_vertices}
  /\ bf' = [pc |-> "start", k |-> 0, passes |-> 0]
  /\ UNCHANGED <<g, dist, visited_vertices, q, pc>>
  /\ UNCHANGED <<heapVars, gbf, gfw, fw>>

FWAgain ==
  /\ fw.pc = "done"
  /\ previous = <<>>
  /\ previous' = Returned(src, gfw.dist, gfw.parent, ~fw.ret)
  /\ fw' = [pc |-> "start", k |-> 0, ret |-> FALSE]
  /\ UNCHANGED <<heapVars, dijkstraVars, gbf, bf, gfw>>

InitCallAgain ==
  \/ InitDijkstra
  \/ InitBellmanFord /\ gbf.nb_vertices <= MaxVertices
  \/ InitFloydWarshall /\ gfw.nb_vertices <= MaxVertices

NextCallAgain ==
  \/ DijkstraStart
  \/ DijkstraVisit
  \/ DijkstraReturn
  \/ DijkstraAgain
  \/ BFInit
  \/ BFPass
  \/ BFDetect
  \/ BFAgain
  \/ FWInit
  \/ FWStep
  \/ FWReturn
  \/ FWAgain

SpecCallAgain == InitCallAgain /\ [][NextCallAgain]_vars

\* bellman_ford from source s on a graph object just created from the edge
\* array of gr: lines 64-67, the passes of line 70 from pass k on, lines 91-103
RECURSIVE Passes(_, _, _, _)
Passes(gr, d, p, k) ==
  IF k < gr.nb_vertices - 1
  THEN LET r == RelaxPairs(gr, d, p, 0)
       IN Passes(gr, r.dist, r.parent, k + 1)
  ELSE [dist |-> d, parent |-> p]

OnFreshCopy(gr, s) ==
  LET r == Passes(gr,
                  [w \in 0..(gr.nb_vertices - 1) |-> IF w # s THEN Infinity ELSE 0],
                  [w \in 0..(gr.nb_vertices - 1) |-> IF w # s THEN -1 ELSE w],
                  1)
  IN Returned(s, r.dist, r.parent, Improves(gr, r.dist))

(***************************************************************************)
(* dijkstra, bellman_ford and get_adj_list given a vertex index outside    *)
(* 0..n-1: the index before the first slot or the one after the last.      *)
(* An access outside a table is undefined behaviour: status becomes "ub"   *)
(* and the call either dies (pc "abort") or goes on in a state the source  *)
(* does not determine (pc "undefined").                                    *)
(***************************************************************************)
OutOfRange(n) == {-1, n}

\* dijkstra, lines 145-160, src outside 0..n-1: line 159 writes
\* dist[src].weight and line 160 passes dist[src] to heap_add
DijkstraStartOutOfRange ==
  /\ pc = "start"
  /\ src \notin 0..(g.nb_vertices - 1)
  /\ dist' = [i \in 0..(g.nb_vertices - 1) |-> vertex_s(i, Infinity, -1)]
  /\ visited_vertices' = [i \in 0..(g.nb_vertices - 1) |-> FALSE]
  /\ q' = heap_create(g.nb_vertices)
  /\ status' = "ub"
  /\ pc' \in {"abort", "undefined"}
  /\ UNCHANGED <<g, src>>
  /\ UNCHANGED <<h, ret, last, phase, drained, added, fresh, previous, matrixVars>>

\* get_adj_list(g, src), lines 111-114: NULL when ind >= nb_vertices, else
\* the read of adj_lists[ind], outside the table when ind < 0
GetAdjList ==
  /\ pc = "get_adj_list"
  /\ IF src >= g.nb_vertices
     THEN /\ pc' = "null"
          /\ UNCHANGED status
     ELSE IF src < 0
     THEN /\ status' = "ub"
          /\ pc' \in {"abort", "undefined"}
     ELSE /\ pc' = "returned"
          /\ UNCHANGED status
  /\ UNCHANGED <<g, src, dist, visited_vertices, q>>
  /\ UNCHANGED <<h, ret, last, phase, drained, added, fresh, previous, matrixVars>>

InitOutOfRange ==
  /\ \/ /\ \E n \in 1..MaxVertices, directed \in BOOLEAN :
             \E edges \in EdgeArrays(n) :
               g = create_graph(n, Len(edges), directed, edges)
        /\ src \in OutOfRange(g.nb_vertices)
        /\ pc \in {"start", "get_adj_list"}
        /\ BellmanFordIdle
     \/ /\ \E n \in 1..MaxVertices, directed \in BOOLEAN :
             \E edges \in MatrixEdgeArrays(n) :
               gbf = create_graph_bf(n, Len(edges), directed, edges)
        /\ src \in OutOfRange(gbf.nb_vertices)
        /\ bf = [pc |-> "start", k |-> 0, passes |-> 0]
        /\ g = create_graph(1, 0, TRUE, <<>>)
        /\ pc = "idle"
  /\ dist = <<>>
  /\ visited_vertices = <<>>
  /\ q = heap_create(1)
  /\ h = heap_create(1)
  /\ HeapIdle
  /\ FirstCall
  /\ FloydWarshallIdle

NextOutOfRange ==
  \/ DijkstraStartOutOfRange
  \/ GetAdjList
  \/ BFInit
  \/ BFPass
  \/ BFDetect

SpecOutOfRange == InitOutOfRange /\ [][NextOutOfRange]_vars

(***************************************************************************)
(* dijkstra on a graph of at least two vertices with any weights, negative *)
(* ones, cycles and self-loops included.  The call is one sequential       *)
(* program: whenever a step of it is possible a step is taken, which is    *)
(* the weak fairness of the second specification.                          *)
(***************************************************************************)
InitDijkstraAnyWeights ==
  /\ \E n \in 2..MaxVertices, directed \in BOOLEAN :
       \E edges \in MatrixEdgeArrays(n) :
         g = create_graph(n, Len(edges), directed, edges)
  /\ src \in 0..(g.nb_vertices - 1)
  /\ dist = <<>>
  /\ visited_vertices = <<>>
  /\ q = heap_create(1)
  /\ pc = "start"
  /\ h = heap_create(1)
  /\ HeapIdle
  /\ FirstCall
  /\ BellmanFordIdle
  /\ FloydWarshallIdle

SpecDijkstraAnyWeights == InitDijkstraAnyWeights /\ [][NextDijkstra]_vars

\* a step of dijkstra is possible exactly while pc is "start" or "loop"
DijkstraRunning == pc \in {"start", "loop"}

\* WF_vars(NextDijkstra), with ENABLED <<NextDijkstra>>_vars written as the
\* state predicate DijkstraRunning that it equals
SpecDijkstraRuns ==
  /\ SpecDijkstraAnyWeights
  /\ ([]<>(~DijkstraRunning) \/ []<><<NextDijkstra>>_vars)

(***************************************************************************)
(* Any one of the four engines called on a graph, the graphs in matrix     *)
(* form with at most MaxVertices vertices.                                 *)
(***************************************************************************)
InitEngines ==
  \/ InitDijkstra
  \/ InitMarkov
  \/ InitBellmanFord /\ gbf.nb_vertices <= MaxVertices
  \/ InitFloydWarshall /\ gfw.nb_vertices <= MaxVertices

NextEngines ==
  \/ NextSingleSource
  \/ NextFloydWarshall

SpecEngines == InitEngines /\ [][NextEngines]_vars

TypeOK ==
  /\ status \in {"ok", "abort", "ub"}
  /\ h.nb_elements \in -1..h.max_elements
  /\ pc \in {"idle", "start", "loop", "done", "abort",
            "markov_start", "markov_loop", "markov_done", "markov_abort"}
  /\ bf.pc \in {"idle", "start", "relax", "done"}
  /\ fw.pc \in {"idle", "start", "loop", "done"}

(***************************************************************************)
(* Properties of the heap.                                                 *)
(***************************************************************************)

\* C1: after any sequence of heap_add and heap_remove calls, every non-root
\* live slot i has array[(i-1)/2].weight <= array[i].weight.
C1_HeapOrder ==
  status = "ok" =>
    \A i \in 1..(h.nb_elements - 1) :
      h.array[(i - 1) \div 2].weight <= h.array[i].weight

\* C2: after a sequence of heap_add calls, the keys extracted by repeated
\* heap_peek/heap_remove come out in non-decreasing order.
C2_ExtractionOrder == NonDecreasing(drained)

\* C3: on a non-empty heap, heap_peek returns an entry whose key is at most
\* the key of every entry in the heap, and leaves the heap unchanged.
C3_PeekMinimum ==
  [][(last'.op = "heap_peek" /\ ~heap_empty(h)) =>
       /\ h' = h
       /\ \A e \in Entries(h) : ret'.weight <= e.weight]_vars

\* C4: heap_add of a vertex that is not in the heap (never added, or added
\* and since removed) adds one entry, the given one, and keeps every entry
\* that was in the heap.
C4_AddAbsent ==
  [][(last'.op = "heap_add" /\ ~last'.wasIn) =>
       /\ h'.nb_elements = h.nb_elements + 1
       /\ last'.v \in Entries(h')
       /\ Entries(h) \subseteq Entries(h')]_vars

\* C5: heap_add of a vertex that is in the heap replaces its key and
\* predecessor exactly when the new key is strictly smaller, leaves the heap
\* (entries, order, index array, size) as it was otherwise, and never changes
\* the number of entries.
C5_AddPresent ==
  [][(last'.op = "heap_add" /\ last'.wasIn) =>
       LET v == last'.v
           old == CHOOSE e \in Entries(h) : e.ind = v.ind
       IN /\ status' = "ok"
          /\ h'.nb_elements = h.nb_elements
          /\ IF v.weight < old.weight
             THEN Entries(h') = (Entries(h) \ {old}) \cup {v}
             ELSE h' = h]_vars

\* a key was lowered in place: the entry of the last heap_add sits below a
\* parent of larger key
C5_Witness ==
  /\ status = "ok"
  /\ last.op = "heap_add"
  /\ last.wasIn
  /\ \E i \in 1..(h.nb_elements - 1) :
       h.array[i] = last.v /\ h.array[i].weight < h.array[(i - 1) \div 2].weight

\* C6: after any sequence of heap_add and heap_remove calls, every live slot
\* i has inds[array[i].ind] = i.
C6_IndexConsistent ==
  \A i \in Live(h) : h.inds[h.array[i].ind] = i

\* a removal that moved entries, leaving at least two
C6_Witness ==
  /\ status = "ok"
  /\ last.op = "heap_remove"
  /\ h.nb_elements >= 2
  /\ h.array[h.nb_elements] # h.array[0]

\* C7: no two live slots hold an entry for the same vertex index.
C7_OneEntryPerVertex ==
  \A i, j \in Live(h) : i # j => h.array[i].ind # h.array[j].ind

\* a vertex of the heap was added again, among other entries
C7_Witness ==
  /\ status = "ok"
  /\ last.op = "heap_add"
  /\ last.wasIn
  /\ h.nb_elements >= 2

\* C8: a heap made by heap_create(capacity) accepts heap_add of capacity
\* distinct vertices without a fatal failure and then holds capacity entries.
C8_CapacityAdds ==
  fresh => status = "ok" /\ h.nb_elements = Cardinality(added)

\* C9: heap_remove on an empty heap fails on an assertion and does not
\* change the heap; the entry count does not become negative.
C9_RemoveEmpty ==
  [][(last'.op = "heap_remove" /\ heap_empty(h)) =>
       /\ status' = "abort"
       /\ h' = h
       /\ h'.nb_elements >= 0]_vars

(***************************************************************************)
(* Properties of dijkstra.                                                 *)
(***************************************************************************)

\* C10: on a graph of n >= 2 vertices with weights >= 0, when dijkstra
\* returns, dist[w].weight is the weight of a shortest path from src to w,
\* for every w reachable from src.
C10_DijkstraShortest ==
  (pc = "done" /\ g.nb_vertices >= 2 /\ NonNegative(g)) =>
    \A w \in 0..(g.nb_vertices - 1) :
      ShortestPath(g, src)[w] < Infinity => dist[w].weight = ShortestPath(g, src)[w]

\* C11: on a graph with weights >= 0, when dijkstra returns, the prev links
\* from any vertex w reachable from src follow edges of the graph, end at
\* src, and the weights of these edges sum to the weight of a shortest path
\* from src to w.
C11_PrevChainShortest ==
  (pc = "done" /\ NonNegative(g)) =>
    \A w \in Reachable(g, src) :
      LET path == print_path(dist, w, g.nb_vertices)
      IN /\ path[Len(path)] = src
         /\ PathWeight(g, path) = ShortestPath(g, src)[w]

\* C12: when dijkstra returns, dist[w] is (+infinity, prev -1) exactly for the
\* vertices w that are not reachable from src.
C12_UnreachableInfinite ==
  pc = "done" =>
    \A w \in 0..(g.nb_vertices - 1) :
      (dist[w].weight = Infinity /\ dist[w].prev = -1) <=> w \notin Reachable(g, src)

\* the graph of the scenario: undirected, 0-1 (1), 1-2 (2), 0-2 (5), 2-3 (1)
\* added in that order, source 0
Scenario14 ==
  /\ g = create_graph(4, 4, FALSE,
                      <<edge_s(0, 1, 1), edge_s(1, 2, 2), edge_s(0, 2, 5), edge_s(2, 3, 1)>>)
  /\ src = 0

C19_PassCount ==
  bf.pc = "done" => bf.passes = gbf.nb_vertices - 1

\* the weights of the shortest paths from src in the graph bellman_ford is given
TrueDist == WalkDist(MatrixArcs(gbf), gbf.nb_vertices, src, gbf.nb_vertices - 1)

\* C16: when bellman_ford returns and has not set neg_weight_cycle, dist[w]
\* is the weight of a shortest path from src to w for every w (+infinity when
\* there is none), and the parent links from every reachable w lead to src
\* along a path of that weight.
C16_BellmanFordShortest ==
  (bf.pc = "done" /\ ~gbf.neg_weight_cycle) =>
    \A w \in 0..(gbf.nb_vertices - 1) :
      /\ gbf.dist[w] = TrueDist[w]
      /\ TrueDist[w] < Infinity =>
           LET path == print_path_bf(gbf, w, gbf.nb_vertices)
           IN /\ path # <<>>
              /\ path[Len(path)] = src
              /\ MatrixPathWeight(gbf, path) = TrueDist[w]

\* bellman_ford returned without the flag on a graph of four vertices where
\* some shortest path has at least two edges and negative weight
C16_Witness ==
  /\ bf.pc = "done"
  /\ ~gbf.neg_weight_cycle
  /\ gbf.nb_vertices = MaxMatrixVertices
  /\ \E w \in 0..(gbf.nb_vertices - 1) :
       gbf.dist[w] < 0 /\ Len(print_path_bf(gbf, w, gbf.nb_vertices)) >= 3

\* C17: bellman_ford sets neg_weight_cycle only if a cycle of negative weight
\* is reachable from src; on every other graph the flag stays false.
C17_FlagOnlyOnNegativeCycle ==
  (bf.pc = "done" /\ gbf.neg_weight_cycle) =>
    NegativeCycleFrom(MatrixArcs(gbf), gbf.nb_vertices, src)

\* C18: when a cycle of negative weight is reachable from src, bellman_ford
\* has set neg_weight_cycle when it returns.
C18_NegativeCycleFlagged ==
  (bf.pc = "done" /\ NegativeCycleFrom(MatrixArcs(gbf), gbf.nb_vertices, src)) =>
    gbf.neg_weight_cycle

\* bellman_ford returned on a graph of four vertices with a cycle of negative
\* weight that does not go through src
C18_Witness ==
  /\ bf.pc = "done"
  /\ gbf.nb_vertices = MaxMatrixVertices
  /\ NegativeCycleFrom(MatrixArcs(gbf), gbf.nb_vertices, src)
  /\ WalkDist(MatrixArcs(gbf), gbf.nb_vertices, src, gbf.nb_vertices)[src] = 0

(***************************************************************************)
(* Properties of floyd_warshall.                                           *)
(***************************************************************************)

\* no vertex lies on a closed walk of negative weight
NoNegativeCycle(gr) ==
  \A v \in 0..(gr.nb_vertices - 1) :
    WalkDist(MatrixArcs(gr), gr.nb_vertices, v, gr.nb_vertices)[v] >= 0

\* C20: on a graph in matrix form without a cycle of negative weight, when
\* floyd_warshall returns, dist[v][w] is the weight of a shortest path from v
\* to w for every pair (v, w), and +infinity exactly when there is no path.
C20_FloydWarshallShortest ==
  (fw.pc = "done" /\ NoNegativeCycle(gfw)) =>
    \A v \in 0..(gfw.nb_vertices - 1), w \in 0..(gfw.nb_vertices - 1) :
      gfw.dist[v][w] = WalkDist(MatrixArcs(gfw), gfw.nb_vertices, v, gfw.nb_vertices - 1)[w]

\* C21: floyd_warshall returns false exactly when, after its triple loop,
\* some diagonal entry dist[v][v] is negative; it returns true otherwise.
C21_ReturnTellsNegativeDiagonal ==
  fw.pc = "done" =>
    (fw.ret = FALSE <=> \E v \in 0..(gfw.nb_vertices - 1) : gfw.dist[v][v] < 0)

(***************************************************************************)
(* Properties of the engines together.                                     *)
(***************************************************************************)

\* the list form and the matrix forms hold the same edges with the same
\* weights (no pair of vertices was given two edges)
SameEdges ==
  /\ gbf.adj_matrix = gfw.adj_matrix
  /\ Arcs(g) = {a \in MatrixArcs(gbf) : a.src # a.dst}

\* C15: on a graph with weights >= 0 given in list form to dijkstra and in
\* matrix form to bellman_ford and floyd_warshall, with the same source,
\* dist[w].weight of dijkstra, dist[w] of bellman_ford and dist[src][w] of
\* floyd_warshall are equal for every vertex w.
C15_EnginesAgree ==
  (pc = "done" /\ bf.pc = "done" /\ fw.pc = "done" /\ NonNegative(g) /\ SameEdges) =>
    \A w \in 0..(g.nb_vertices - 1) :
      /\ dist[w].weight = gbf.dist[w]
      /\ gbf.dist[w] = gfw.dist[src][w]

\* the directed graph of two vertices with the edges 0->1 and 1->0 of
\* weight -1, given to bellman_ford and floyd_warshall, source 0
Scenario22 ==
  /\ gbf.adj_matrix = create_graph_matrix(2, 2, TRUE, NegativeTwoCycle).adj_matrix
  /\ gfw.adj_matrix = gbf.adj_matrix
  /\ src = 0

\* C22: on that graph bellman_ford sets neg_weight_cycle and floyd_warshall
\* reports a negative cycle (returns false).
C22_TwoCycleFlagged ==
  (bf.pc = "done" /\ fw.pc = "done" /\ Scenario22) =>
    /\ gbf.neg_weight_cycle
    /\ fw.ret = FALSE

\* C23: on the graph of one vertex and no edge every engine runs to its end
\* without a fatal failure, with distance 0 and predecessor 0 for vertex 0
\* and no negative cycle reported.
C23_SingleVertex ==
  /\ g.nb_vertices = 1 =>
       /\ pc \notin {"abort", "markov_abort"}
       /\ pc = "done" => (dist[0].weight = 0 /\ dist[0].prev = 0)
       /\ pc = "markov_done" => (dist[0].weight = Probability(0) /\ dist[0].prev = 0)
  /\ (gbf.nb_vertices = 1 /\ bf.pc = "done") =>
       /\ gbf.dist[0] = 0
       /\ gbf.parent[0] = 0
       /\ ~gbf.neg_weight_cycle
  /\ (gfw.nb_vertices = 1 /\ fw.pc = "done") =>
       /\ gfw.dist[0][0] = 0
       /\ gfw.parent[0][0] = 0
       /\ fw.ret = TRUE

\* the part of C23 that bellman_ford and floyd_warshall do satisfy
C23_MatrixEngines ==
  /\ (gbf.nb_vertices = 1 /\ gbf.nb_edges = 0 /\ bf.pc = "done") =>
       /\ gbf.dist[0] = 0
       /\ gbf.parent[0] = 0
       /\ ~gbf.neg_weight_cycle
  /\ (gfw.nb_vertices = 1 /\ gfw.nb_edges = 0 /\ fw.pc = "done") =>
       /\ gfw.dist[0][0] = 0
       /\ gfw.parent[0][0] = 0
       /\ fw.ret = TRUE

\* C24: the second run of bellman_ford on a graph object, from a source s2
\* other than the source s1 of the first run, ends with the dist, parent and
\* neg_weight_cycle of a run from s2 on a freshly created copy of the graph.
C24_SecondRunAsFresh ==
  (bf.pc = "done" /\ previous # <<>> /\ previous.src # src) =>
    Returned(src, gbf.dist, gbf.parent, gbf.neg_weight_cycle) = OnFreshCopy(gbf, src)

\* the tables of C24 without the flag
C24_SecondRunTables ==
  (bf.pc = "done" /\ previous # <<>> /\ previous.src # src) =>
    /\ gbf.dist = OnFreshCopy(gbf, src).dist
    /\ gbf.parent = OnFreshCopy(gbf, src).parent

\* C25: a second call of dijkstra, bellman_ford or floyd_warshall on the same
\* graph with the same source returns the distance and predecessor tables
\* and the negative-cycle outcome of the first call.
C25_SameResultTwice ==
  /\ (pc = "done" /\ previous # <<>>) =>
       previous = Returned(src, dist, <<>>, FALSE)
  /\ (bf.pc = "done" /\ previous # <<>> /\ previous.src = src) =>
       previous = Returned(src, gbf.dist, gbf.parent, gbf.neg_weight_cycle)
  /\ (fw.pc = "done" /\ previous # <<>>) =>
       previous = Returned(src, gfw.dist, gfw.parent, ~fw.ret)

\* bellman_ford has returned from a second call with the same source, on a
\* graph where its passes had distances to lower
C25_Witness ==
  /\ previous # <<>>
  /\ bf.pc = "done" /\ previous.src = src /\ bf.passes > 0
  /\ \E v \in 0..(gbf.nb_vertices - 1) : v # src /\ gbf.dist[v] < Infinity

\* dijkstra has returned from a second call with a vertex reached
C25_WitnessDijkstra ==
  /\ previous # <<>>
  /\ pc = "done"
  /\ \E v \in 0..(g.nb_vertices - 1) : v # src /\ dist[v].weight < Infinity

\* floyd_warshall has returned from a second call with a distance that is
\* not an edge
C25_WitnessFloydWarshall ==
  /\ previous # <<>>
  /\ fw.pc = "done"
  /\ \E v, w \in 0..(gfw.nb_vertices - 1) :
       gfw.dist[v][w] < Infinity /\ gfw.adj_matrix[v][w] = Infinity

\* the graph gr of probabilities with every weight p replaced by -log(p)
NegLog(gr) ==
  [gr EXCEPT !.adj_lists =
     [u \in DOMAIN gr.adj_lists |->
        [k \in DOMAIN gr.adj_lists[u] |->
           [gr.adj_lists[u][k] EXCEPT !.weight = neg_log(@)]]]]

\* the greatest product of the probabilities along a path from s to w: the
\* probability whose -log is the least sum of the -log along a path
MaxProduct(gr, s, w) == Probability(ShortestPath(NegLog(gr), s)[w])

\* C26: dijkstra_markov returns for every vertex w reachable from src the
\* greatest product of edge probabilities over the paths from src to w; the
\* score of src is 1.
C26_MaxProduct ==
  pc = "markov_done" =>
    /\ dist[src].weight = Probability(0)
    /\ \A w \in Reachable(g, src) : dist[w].weight = MaxProduct(g, src, w)

\* dijkstra_markov is given the directed chain 0->1 (0.6), 0->2 (0.4),
\* 1->2 (1.0) and the source 0
Scenario27 ==
  /\ g = create_graph(3, Len(Chain), TRUE, Chain)
  /\ src = 0

\* C27: on that chain dijkstra_markov gives vertex 2 the score 0.6 and the
\* predecessor chain 0, 1, 2.
C27_ChainScore ==
  (pc = "markov_done" /\ Scenario27) =>
    /\ dist[2].weight = Probability(1)
    /\ print_path(dist, 2, g.nb_vertices) = <<2, 1, 0>>

\* the predecessor chain of C27 alone
C27_ChainPredecessors ==
  (pc = "markov_done" /\ Scenario27) =>
    print_path(dist, 2, g.nb_vertices) = <<2, 1, 0>>

\* C28: on a table returned by dijkstra on non-negative weights, and on one
\* left by bellman_ford with no negative cycle flagged, print_path from any
\* destination reaches the vertex it stops on within n predecessor links
\* and stores at most n vertices in its buffer of n slots.
C28_PathFitsBuffer ==
  /\ (pc = "done" /\ NonNegative(g)) =>
       \A dst \in 0..(g.nb_vertices - 1) :
         LET path == print_path(dist, dst, g.nb_vertices)
         IN /\ Len(path) <= g.nb_vertices
            /\ dist[path[Len(path)]].prev = -1
  /\ (bf.pc = "done" /\ ~gbf.neg_weight_cycle) =>
       \A dst \in 0..(gbf.nb_vertices - 1) :
         LET path == print_path_bf(gbf, dst, gbf.nb_vertices)
         IN /\ Len(path) <= gbf.nb_vertices
            /\ path # <<>> => gbf.parent[path[Len(path)]] = path[Len(path)]

\* bellman_ford has flagged nothing and print_path fills three slots from
\* some destination
C28_Witness ==
  /\ bf.pc = "done" /\ ~gbf.neg_weight_cycle
  /\ \E dst \in 0..(gbf.nb_vertices - 1) :
       Len(print_path_bf(gbf, dst, gbf.nb_vertices)) = 3

\* dijkstra has returned and print_path fills every slot of its buffer
C28_WitnessDijkstra ==
  /\ pc = "done" /\ NonNegative(g) /\ g.nb_vertices >= 3
  /\ \E dst \in 0..(g.nb_vertices - 1) :
       Len(print_path(dist, dst, g.nb_vertices)) = g.nb_vertices

\* C29: after create_graph in matrix form, adj_matrix[i][i] is 0 for every
\* vertex i, and for i # j adj_matrix[i][j] is +infinity exactly when no
\* edge of the array goes from i to j (or joins them, in an undirected
\* graph).  The edges of the array are read from g, the adjacency lists made
\* from the same array.
C29_MatrixOfEdges ==
  \A i, j \in 0..(gfw.nb_vertices - 1) :
    IF i = j THEN gfw.adj_matrix[i][i] = 0
    ELSE gfw.adj_matrix[i][j] = Infinity <=>
           ~\E e \in Arcs(g) : e.src = i /\ e.dst = j

\* C29 off the diagonal
C29_OffDiagonal ==
  \A i, j \in 0..(gfw.nb_vertices - 1) :
    i # j => (gfw.adj_matrix[i][j] = Infinity <=>
                ~\E e \in Arcs(g) : e.src = i /\ e.dst = j)

\* C30: dijkstra given a graph with an edge of negative weight ends in an
\* explicit failure and never returns a result table.
C30_NegativeWeightRefused ==
  (\E e \in Arcs(g) : e.weight < 0) => pc # "done"

\* C31: dijkstra and bellman_ford given a source outside 0..n-1, and
\* get_adj_list given a vertex outside 0..n-1, end in an explicit failure or
\* an error value and access no table slot outside 0..n-1.
C31_OutOfRangeRefused ==
  /\ status # "ub"
  /\ src \notin 0..(g.nb_vertices - 1) => pc \notin {"done", "returned", "undefined"}
  /\ src \notin 0..(gbf.nb_vertices - 1) => bf.pc # "done"

\* the part of C31 that holds: get_adj_list answers NULL to an index >= n,
\* and bellman_ford accesses no slot outside its tables
C31_NullAboveRange ==
  /\ (pc \in {"null", "abort", "undefined"} /\ src >= g.nb_vertices /\ dist = <<>>) =>
       (pc = "null" /\ status = "ok")
  /\ bf.pc # "idle" => status = "ok"

\* C32: during dijkstra on non-negative weights, a vertex is finalized with
\* a distance that is not less than the distance of any vertex finalized
\* before it.
C32_FinalizedInOrder ==
  [][(pc = "loop" /\ NonNegative(g)) =>
       \A v \in 0..(g.nb_vertices - 1) :
         (~visited_vertices[v] /\ visited_vertices'[v]) =>
           \A u \in 0..(g.nb_vertices - 1) :
             visited_vertices[u] => dist[u].weight <= dist'[v].weight]_vars

\* C33: once dijkstra has finalized a vertex its dist entry is not written
\* again in that run, and a heap entry extracted for a finalized vertex is
\* dropped: no table entry changes and no edge is relaxed, the heap only
\* loses that entry.
C33_FinalizedFrozen ==
  [][pc = "loop" =>
       /\ \A v \in 0..(g.nb_vertices - 1) :
            visited_vertices[v] => (visited_vertices'[v] /\ dist'[v] = dist[v])
       /\ (~heap_empty(q) /\ visited_vertices[heap_peek(q).ind]) =>
            /\ dist' = dist
            /\ visited_vertices' = visited_vertices
            /\ q' = heap_remove(q, Unset).heap]_vars

\* the entry dijkstra extracts next is for a finalized vertex and carries
\* another distance than the one recorded for it
C33_Witness ==
  /\ pc = "loop"
  /\ ~heap_empty(q)
  /\ visited_vertices[heap_peek(q).ind]
  /\ heap_peek(q).weight # dist[heap_peek(q).ind].weight

\* C34: on every graph of at least two vertices, whatever the weights, the
\* cycles and the self-loops, and from every valid source, the loop of
\* dijkstra comes to an empty heap and the call returns.
C34_DijkstraReturns == <>(pc = "done")

\* dijkstra has returned on a graph with a cycle of negative weight through
\* its source
C34_Witness ==
  /\ pc = "done"
  /\ \E e \in Arcs(g) : e.weight < 0 /\ e.src = src /\ e.dst = src

\* the vertices met from w by following parent[v][.] until v, or until an
\* entry -1, or until k links have been followed
RECURSIVE RowChain(_, _, _, _)
RowChain(parent, v, w, k) ==
  IF w = v \/ k = 0 \/ parent[v][w] = -1 THEN <<w>>
  ELSE <<w>> \o RowChain(parent, v, parent[v][w], k - 1)

\* C35: on a graph in matrix form without a cycle of negative weight, when
\* floyd_warshall returns, parent[v][w] is -1 exactly when dist[v][w] is
\* +infinity, and for v # w with dist[v][w] finite the parent[v][.] links
\* from w reach v in at most n-1 steps, along edges of the graph whose
\* weights sum to dist[v][w].
C35_ParentRows ==
  (fw.pc = "done" /\ NoNegativeCycle(gfw)) =>
    \A v, w \in 0..(gfw.nb_vertices - 1) :
      /\ gfw.parent[v][w] = -1 <=> gfw.dist[v][w] = Infinity
      /\ (v # w /\ gfw.dist[v][w] # Infinity) =>
           LET path == RowChain(gfw.parent, v, w, gfw.nb_vertices)
           IN /\ path[Len(path)] = v
              /\ Len(path) <= gfw.nb_vertices
              /\ \A i \in 1..(Len(path) - 1) :
                   gfw.adj_matrix[path[i + 1]][path[i]] # Infinity
              /\ MatrixPathWeight(gfw, path) = gfw.dist[v][w]

\* floyd_warshall has returned, no cycle is negative, and some pair is joined
\* by parent links over three edges where no single edge joins it
C35_Witness ==
  /\ fw.pc = "done"
  /\ NoNegativeCycle(gfw)
  /\ \E v, w \in 0..(gfw.nb_vertices - 1) :
       /\ v # w
       /\ gfw.adj_matrix[v][w] = Infinity
       /\ gfw.dist[v][w] # Infinity
       /\ Len(RowChain(gfw.parent, v, w, gfw.nb_vertices)) = 4

\* the graph given to an engine in matrix form, without its result space
\* and its flag
MatrixGraph(gr) ==
  [nb_vertices |-> gr.nb_vertices, nb_edges |-> gr.nb_edges,
   directed |-> gr.directed, adj_matrix |-> gr.adj_matrix]

\* C36: no step of dijkstra, dijkstra_markov, bellman_ford or floyd_warshall
\* changes the graph it is given: the vertex count, the directed flag, the
\* adjacency lists and the entries of the adjacency matrix stay as they
\* were; only dist, parent and the negative-cycle flag may change.
C36_GraphUnchanged ==
  [][/\ g' = g
     /\ MatrixGraph(gbf') = MatrixGraph(gbf)
     /\ MatrixGraph(gfw') = MatrixGraph(gfw)]_vars

\* floyd_warshall has returned with a dist that differs from adj_matrix
C36_Witness ==
  /\ fw.pc = "done"
  /\ gfw.dist # gfw.adj_matrix

\* bellman_ford has returned with the flag set and distances lowered
C36_WitnessBellmanFord ==
  /\ bf.pc = "done"
  /\ gbf.neg_weight_cycle
  /\ \E w \in 0..(gbf.nb_vertices - 1) : w # src /\ gbf.dist[w] # Infinity

\* dijkstra, and dijkstra_markov, has returned with a vertex reached
C36_WitnessDijkstra ==
  /\ pc \in {"done", "markov_done"}
  /\ \E w \in 0..(g.nb_vertices - 1) : dist[w].prev # -1

\* C37: when bellman_ford returns and has left neg_weight_cycle false, no
\* edge lowers a distance any more: for every pair (u, w) with a finite
\* adj_matrix[u][w], dist[u] + adj_matrix[u][w] is not less than dist[w].
C37_FixedPoint ==
  (bf.pc = "done" /\ ~gbf.neg_weight_cycle) =>
    \A u, w \in 0..(gbf.nb_vertices - 1) :
      gbf.adj_matrix[u][w] # Infinity =>
        Plus(gbf.dist[u], gbf.adj_matrix[u][w]) >= gbf.dist[w]

\* bellman_ford has returned without the flag after at least one pass, on a
\* graph with an edge of negative weight that it has followed
C37_Witness ==
  /\ bf.pc = "done"
  /\ ~gbf.neg_weight_cycle
  /\ bf.passes > 0
  /\ \E w \in 0..(gbf.nb_vertices - 1) : gbf.dist[w] < 0

\* C38: during dijkstra on a graph of at least two vertices with
\* non-negative weights the heap, created with room for n vertices, never
\* holds more than n-1 entries, and no assertion of heap_add, heap_remove or
\* check_heap fails.
C38_HeapNeverFull ==
  (g.nb_vertices >= 2 /\ NonNegative(g)) =>
    /\ pc # "abort"
    /\ pc \in {"loop", "done"} => q.nb_elements <= g.nb_vertices - 1

\* the heap of dijkstra holds n-1 entries, all the vertices but the source
C38_Witness ==
  /\ g.nb_vertices >= 3
  /\ NonNegative(g)
  /\ pc = "loop"
  /\ q.nb_elements = g.nb_vertices - 1

=============================================================================
